---- MODULE Spec2Model ----
(***************************************************************************)
(* The two contact-analysis notebooks of the user guide, run cell by cell  *)
(* in a fresh kernel.  Lengths are in units of 0.1 Angstrom, so that the   *)
(* radii of the notebooks (4.5, 5.0, 3.4, 2.5, 2.4) are integers.          *)
(***************************************************************************)
EXTENDS Integers, Sequences, FiniteSets, TLC

VARIABLES
    nb,               \* which notebook the kernel runs
    cell,             \* index of the next code cell to execute
    namespace,        \* names bound in the kernel
    In,               \* In[k]: prompt number the kernel gave code cell k (0: not run)
    execution_count,  \* the kernel's execution counter
    raised,           \* exception raised by a cell, "none" when there is none
    trajectory,       \* u.trajectory: the frames read from the DCD file
    frame,            \* u.trajectory.ts.frame: the frame the universe is at
    radius,           \* radius argument of the call of cell 5
    pc,               \* position inside the call of cell 5
    it,               \* number of frames the running for loop has yielded
    timeseries,       \* the list / array built by the running call
    ca,               \* the array cell 5 makes: ca, or ca.timeseries
    out,              \* Out[5], the value of the last expression of cell 5
    ca_df,            \* shape of the DataFrame of cell 6
    r0,               \* Contacts: distances between the reference groups
    initial_contacts, \* Contacts: contact matrix of the reference
    kwargs,           \* Contacts: keyword arguments for the method
    calls,            \* the calls of the method made so far, in order
    arg_r,            \* fraction_contacts_between called on its own: r
    arg_r0,           \*   r0
    arg_kwargs,       \*   the keyword arguments given
    returned,         \*   the value returned
    fpc,              \*   "call" before the call, "returned" after it
    scope,            \* pytest: scope of the fixture
    uses,             \* pytest: the test functions that take the fixture
    phase,            \* pytest: "collect", then "setup", "call", "teardown" per item
    fn,               \* pytest: the test function being collected
    marks_left,       \* pytest: its parametrize marks not yet applied
    callspecs,        \* pytest: Metafunc._calls of the function being collected
    items,            \* pytest: the test items collected
    current,          \* pytest: the item being run
    cached,           \* pytest: the fixture holds a cached result
    log,              \* pytest: fixture runs and test calls, in order
    env,              \* pytest: what the test module meets (numpy, the writer, fixtures)
    shares_memory,    \* test module: the module-level name shares_memory
    skipif,           \* test module: the condition of the skipif mark, as evaluated
    opc,              \* pytest: position of the session over the example tests
    reports,          \* pytest: one report per test run so far
    testsfailed,      \* pytest: Session.testsfailed
    exitstatus,       \* pytest: Session.exitstatus
    history           \* first notebook: the result kept before cell 5 is run again

vars == <<nb, cell, namespace, In, execution_count, raised, trajectory, frame,
          radius, pc, it, timeseries, ca, out, ca_df, r0, initial_contacts,
          kwargs, calls, arg_r, arg_r0, arg_kwargs, returned, fpc,
          scope, uses, phase, fn, marks_left, callspecs, items, current, cached, log,
          env, shares_memory, skipif, opc, reports, testsfailed, exitstatus,
          history>>

notebookVars == <<nb, cell, namespace, In, execution_count, raised, trajectory, frame,
                  radius, pc, it, timeseries, ca, out, ca_df, r0, initial_contacts,
                  kwargs, calls, history>>

fractionVars == <<arg_r, arg_r0, arg_kwargs, returned, fpc>>

collectVars == <<scope, uses, phase, fn, marks_left, callspecs, items, current, cached, log>>

outcomeVars == <<env, shares_memory, skipif, opc, reports, testsfailed, exitstatus>>

pytestVars == <<collectVars, outcomeVars>>

\* the state of the Contacts analysis of the second notebook
contactsVars == <<r0, initial_contacts, kwargs, calls>>

----------------------------------------------------------------------------
(* Bounds and input sets *)

MaxFrames == 2

\* u.select_atoms(sel_acidic), u.select_atoms(sel_basic): ordered atom groups
acidic == <<"GLU.OE1", "ASP.OD1">>
basic == <<"LYS.NZ">>

Atoms == {acidic[i] : i \in 1..Len(acidic)} \cup {basic[i] : i \in 1..Len(basic)}

Coords == {0, 40, 50}

\* One frame of coordinates; the basic nitrogen is taken as the origin.
Conformations == {p \in [Atoms -> Coords] : p["LYS.NZ"] = 0}

RECURSIVE SeqsUpTo(_, _)
SeqsUpTo(S, n) ==
    IF n = 0 THEN {<<>>}
    ELSE LET shorter == SeqsUpTo(S, n - 1)
         IN  shorter \cup {Append(s, x) : s \in {t \in shorter : Len(t) = n - 1}, x \in S}

\* A trajectory file holds at least one frame.
Trajectories == {t \in SeqsUpTo(Conformations, MaxFrames) : Len(t) >= 1}

\* radius of contacts_within_cutoff: the cutoff of the notebook (4.5) and one
\* that some distance equals
Radii == {40, 45}

\* radius of contacts.Contacts: the cutoff of the notebook (5.0) and a smaller one
ContactsRadii == {40, 50}

\* kwargs of contacts.Contacts: the dictionary of the notebook
\* ({'radius': 5.0, 'min_radius': 2.4}) with either key, both or none left out
KwargsChoices ==
    {kw \in UNION {[D -> {24, 50}] : D \in SUBSET {"radius", "min_radius"}} :
        /\ "radius" \in DOMAIN kw => kw["radius"] = 50
        /\ "min_radius" \in DOMAIN kw => kw["min_radius"] = 24}

----------------------------------------------------------------------------
(* The external library, as the notebooks use and describe it *)

Abs(x) == IF x < 0 THEN -x ELSE x

\* group.positions at frame f (0-based) of the trajectory
positions_when_selected(group, f) == [i \in 1..Len(group) |-> trajectory[1][group[i]]]

\* group.positions while the universe is at frame f: an atom group holds
\* indices, its coordinates are read from the current timestep
positions(group, f) == [i \in 1..Len(group) |-> trajectory[f + 1][group[i]]]

\* contacts.distance_array(a, b): matrix of pairwise distances, one row per
\* entry of a, one column per entry of b
distance_array(a, b) ==
    [i \in 1..Len(a) |-> [j \in 1..Len(b) |-> Abs(a[i] - b[j])]]

\* (the distances from the radius outwards)
contact_matrix_beyond(dist, rad) ==
    [i \in 1..Len(dist) |-> [j \in 1..Len(dist[i]) |-> dist[i][j] >= rad]]

\* (a cutoff that leaves out the distances equal to the radius)
contact_matrix_exclusive(dist, rad) ==
    [i \in 1..Len(dist) |-> [j \in 1..Len(dist[i]) |-> dist[i][j] < rad]]

\* contacts.contact_matrix(dist, radius): "determine which distances <= radius"
contact_matrix(dist, rad) ==
    [i \in 1..Len(dist) |-> [j \in 1..Len(dist[i]) |-> dist[i][j] <= rad]]

RECURSIVE Flatten(_)
Flatten(m) == IF m = <<>> THEN <<>> ELSE Head(m) \o Flatten(Tail(m))

RECURSIVE CountTrue(_)
CountTrue(s) ==
    IF s = <<>> THEN 0 ELSE (IF Head(s) THEN 1 ELSE 0) + CountTrue(Tail(s))

\* (any() taken for sum(): 1 when some entry is True)
sum_any(m) == IF CountTrue(Flatten(m)) > 0 THEN 1 ELSE 0

\* ndarray.sum() of a boolean matrix: the number of True entries
sum(m) == CountTrue(Flatten(m))

\* np.array(rows): a list of equal-length rows becomes a 2-d array, the empty
\* list a 1-d array of shape (0,)
np_array(rows) ==
    [shape |-> IF rows = <<>> THEN <<0>> ELSE <<Len(rows), Len(rows[1])>>,
     data  |-> rows]

\* np.empty(shape): an array whose entries are not initialised
np_empty(rows, cols) ==
    [shape |-> <<rows, cols>>,
     data  |-> [i \in 1..rows |-> [j \in 1..cols |-> "empty"]]]

\* d[mask]: the entries of d where the boolean matrix mask is True, row by row
RECURSIVE Compress(_, _)
Compress(mask, vals) ==
    IF vals = <<>> THEN <<>>
    ELSE (IF Head(mask) THEN <<Head(vals)>> ELSE <<>>)
             \o Compress(Tail(mask), Tail(vals))

BoolIndex(d, mask) == Compress(Flatten(mask), Flatten(d))

\* pd.DataFrame(data, columns=columns): the shape of the frame, or ValueError
\* when the data is not a matrix with one column per column name
DataFrame(data, columns) ==
    IF Len(data.shape) = 2 /\ data.shape[2] = Len(columns)
    THEN [raised |-> "none", shape |-> data.shape]
    ELSE [raised |-> "ValueError", shape |-> <<>>]

----------------------------------------------------------------------------
(* The functions the notebooks define *)

\* one pass of the for loop of contacts_within_cutoff, the universe at frame f
n_contacts(group_a, group_b, f, rad) ==
    LET dist == distance_array(positions(group_a, f), positions(group_b, f))
    IN  sum(contact_matrix(dist, rad))

DefaultRadius == 34
DefaultMinRadius == 25

\* (the lower bound left out)
fraction_contacts_between_no_lower(r, r0_, radius_, min_radius_) ==
    LET is_in_contact == [i \in 1..Len(r) |-> r[i] < radius_]
    IN  <<CountTrue(is_in_contact), Len(r)>>

\* (one bound met being enough)
fraction_contacts_between_either(r, r0_, radius_, min_radius_) ==
    LET is_in_contact == [i \in 1..Len(r) |-> (r[i] < radius_) \/ (r[i] > min_radius_)]
    IN  <<CountTrue(is_in_contact), Len(r)>>

\* (the contacts taken from r0 where r0 has them)
fraction_contacts_between_reference(r, r0_, radius_, min_radius_) ==
    LET is_in_contact == [i \in 1..Len(r) |-> (r0_[i] < radius_) /\ (r[i] > min_radius_)]
    IN  <<CountTrue(is_in_contact), Len(r)>>

\* (an empty r answered with 0)
fraction_contacts_between_guarded(r, r0_, radius_, min_radius_) ==
    LET is_in_contact == [i \in 1..Len(r) |-> (r[i] < radius_) /\ (r[i] > min_radius_)]
    IN  IF Len(r) = 0 THEN <<0, 1>> ELSE <<CountTrue(is_in_contact), Len(r)>>

\* (the upper bound taken inclusive, as the cutoff of the reference is)
fraction_contacts_between_upper_inclusive(r, r0_, radius_, min_radius_) ==
    LET is_in_contact == [i \in 1..Len(r) |-> (r[i] <= radius_) /\ (r[i] > min_radius_)]
    IN  <<CountTrue(is_in_contact), Len(r)>>

\* (both bounds taken inclusive)
fraction_contacts_between_inclusive(r, r0_, radius_, min_radius_) ==
    LET is_in_contact == [i \in 1..Len(r) |-> (r[i] <= radius_) /\ (r[i] >= min_radius_)]
    IN  <<CountTrue(is_in_contact), Len(r)>>

\* fraction_contacts_between(r, r0, radius=3.4, min_radius=2.5); the quotient
\* n/d of the true division is the pair <<n, d>>, and 0/0 is nan
fraction_contacts_between(r, r0_, radius_, min_radius_) ==
    LET is_in_contact == [i \in 1..Len(r) |-> (r[i] < radius_) /\ (r[i] > min_radius_)]
        fraction == <<CountTrue(is_in_contact), Len(r)>>
    IN  fraction

\* (the radius of contacts.Contacts handed on when kwargs has none)
CallMethodContactsRadius(r, r0_, kw) ==
    fraction_contacts_between(r, r0_,
        IF "radius" \in DOMAIN kw THEN kw["radius"] ELSE radius,
        IF "min_radius" \in DOMAIN kw THEN kw["min_radius"] ELSE DefaultMinRadius)

\* method(r, r0, **kwargs): a keyword left out of kwargs takes its default
CallMethod(r, r0_, kw) ==
    fraction_contacts_between(r, r0_,
        IF "radius" \in DOMAIN kw THEN kw["radius"] ELSE DefaultRadius,
        IF "min_radius" \in DOMAIN kw THEN kw["min_radius"] ELSE DefaultMinRadius)

\* (the column of the frame forgotten)
prepare_no_frame_column(n_frames, n_ref) == np_empty(n_frames, n_ref)

\* run() allocates the time series: one row per frame, and one column per
\* reference pair after the column of the frame
prepare(n_frames, n_ref) == np_empty(n_frames, n_ref + 1)

\* (r and r0 passed in the other order)
MethodCallSwapped(d, i) ==
    [args   |-> << BoolIndex(r0[i], initial_contacts[i]),
                   BoolIndex(d, initial_contacts[i]) >>,
     kwargs |-> kwargs]

\* The call method(r, r0, **kwargs) for reference pair i, d being the distances
\* at the current frame: r and r0 are the distances, now and in the reference,
\* of the pairs that are in contact in the reference.
MethodCall(d, i) ==
    [args   |-> << BoolIndex(d, initial_contacts[i]),
                   BoolIndex(r0[i], initial_contacts[i]) >>,
     kwargs |-> kwargs]

----------------------------------------------------------------------------
(* The notebooks' code cells: each statement with the global names it reads *)
(* and the names it binds                                                   *)

Stmt(reads, binds) == [reads |-> reads, binds |-> binds]

Cell(n, source) == [execution_count |-> n, source |-> source]

ImportsCell ==
    Cell(1, << Stmt({}, {"mda"}), Stmt({}, {"PSF", "DCD"}), Stmt({}, {"contacts"}),
               Stmt({}, {"np"}), Stmt({}, {"pd"}), Stmt({}, {"plt"}), Stmt({}, {}) >>)

UniverseCell == Cell(2, << Stmt({"mda", "PSF", "DCD"}, {"u"}) >>)

\* (the groups selected before the selection strings are assigned)
SelectionCellReordered ==
    Cell(3, << Stmt({"u", "sel_acidic"}, {"acidic"}),
               Stmt({"u", "sel_basic"}, {"basic"}),
               Stmt({}, {"sel_basic"}), Stmt({}, {"sel_acidic"}) >>)

SelectionCell ==
    Cell(3, << Stmt({}, {"sel_basic"}), Stmt({}, {"sel_acidic"}),
               Stmt({"u", "sel_acidic"}, {"acidic"}),
               Stmt({"u", "sel_basic"}, {"basic"}) >>)

\* Contact analysis: number of contacts within a cutoff
WithinCutoffCells ==
    << ImportsCell, UniverseCell, SelectionCell,
       Cell(4, << Stmt({}, {"contacts_within_cutoff"}) >>),
       Cell(5, << Stmt({"contacts_within_cutoff", "u", "acidic", "basic",
                        "contacts", "np"}, {"ca"}),
                  Stmt({"ca"}, {}) >>),
       Cell(6, << Stmt({"pd", "ca"}, {"ca_df"}), Stmt({"ca_df"}, {}) >>),
       Cell(7, << Stmt({"ca_df"}, {}), Stmt({"plt"}, {}) >>) >>

\* Write your own contacts analysis method
CustomCells ==
    << ImportsCell, UniverseCell, SelectionCell,
       Cell(4, << Stmt({}, {"fraction_contacts_between"}) >>),
       Cell(5, << Stmt({"contacts", "u", "sel_acidic", "sel_basic", "acidic",
                        "basic", "fraction_contacts_between"}, {"ca"}) >>),
       Cell(6, << Stmt({"pd", "ca"}, {"ca_df"}) >>),
       Cell(7, << Stmt({"ca_df"}, {}) >>) >>

Notebooks == << WithinCutoffCells, CustomCells >>

CodeCells == Notebooks[nb]

\* Runs the statements of a cell in order; stops at the first statement that
\* reads an unbound name.
RECURSIVE ExecStmts(_, _)
ExecStmts(ns, stmts) ==
    IF stmts = <<>> THEN [namespace |-> ns, raised |-> "none"]
    ELSE IF ~(Head(stmts).reads \subseteq ns)
         THEN [namespace |-> ns, raised |-> "NameError"]
         ELSE ExecStmts(ns \cup Head(stmts).binds, Tail(stmts))

----------------------------------------------------------------------------

\* fraction_contacts_between is not being called on its own
FractionIdle ==
    /\ arg_r = <<>>
    /\ arg_r0 = <<>>
    /\ arg_kwargs = <<>>
    /\ returned = <<0, 0>>
    /\ fpc = "idle"

FreshKernel ==
    /\ nb \in 1..Len(Notebooks)
    /\ cell = 1
    /\ namespace = {}
    /\ In = [k \in 1..7 |-> 0]
    /\ execution_count = 0
    /\ raised = "none"
    /\ trajectory = <<>>
    /\ frame = 0
    /\ radius = 45
    /\ pc = "idle"
    /\ it = 0
    /\ timeseries = <<>>
    /\ ca = np_array(<<>>)
    /\ out = <<>>
    /\ ca_df = <<>>
    /\ r0 = <<>>
    /\ initial_contacts = <<>>
    /\ kwargs = <<>>
    /\ calls = <<>>
    /\ history = <<>>

\* the example test module is not imported
OutcomesIdle ==
    /\ env = <<>>
    /\ shares_memory = "unbound"
    /\ skipif = FALSE
    /\ opc = "idle"
    /\ reports = <<>>
    /\ testsfailed = 0
    /\ exitstatus = -1

\* no test session is running
PytestIdle ==
    /\ scope = "function"
    /\ uses = {}
    /\ phase = "idle"
    /\ fn = 0
    /\ marks_left = <<>>
    /\ callspecs = <<>>
    /\ items = <<>>
    /\ current = 0
    /\ cached = FALSE
    /\ log = <<>>
    /\ OutcomesIdle

Init == FreshKernel /\ FractionIdle /\ PytestIdle

\* The kernel executes code cell `cell`: it gets the next prompt number.
Prompt ==
    /\ execution_count' = execution_count + 1
    /\ In' = [In EXCEPT ![cell] = execution_count + 1]

\* A cell whose statements only bind names (cells 1, 3, 4 and 7)
RunCell ==
    /\ UNCHANGED <<fractionVars, pytestVars, history>>
    /\ pc = "idle"
    /\ cell \in {1, 3, 4, 7}
    /\ LET res == ExecStmts(namespace, CodeCells[cell].source)
       IN  /\ namespace' = res.namespace
           /\ raised' = res.raised
    /\ Prompt
    /\ cell' = cell + 1
    /\ UNCHANGED <<nb, trajectory, frame, radius, pc, it, timeseries, ca, out, ca_df,
                   contactsVars>>

\* Cell 2: u = mda.Universe(PSF, DCD) reads the trajectory and is at frame 0.
LoadUniverse ==
    /\ UNCHANGED <<fractionVars, pytestVars, history>>
    /\ pc = "idle"
    /\ cell = 2
    /\ LET res == ExecStmts(namespace, CodeCells[cell].source)
       IN  /\ namespace' = res.namespace
           /\ raised' = res.raised
           /\ IF res.raised = "none"
              THEN /\ trajectory' \in Trajectories
                   /\ frame' = 0
              ELSE UNCHANGED <<trajectory, frame>>
    /\ Prompt
    /\ cell' = cell + 1
    /\ UNCHANGED <<nb, radius, pc, it, timeseries, ca, out, ca_df, contactsVars>>

\* Cell 5 of the first notebook starts:
\* ca = contacts_within_cutoff(u, acidic, basic, radius=...)
CallContactsWithinCutoff ==
    /\ UNCHANGED <<fractionVars, pytestVars, history>>
    /\ pc = "idle"
    /\ nb = 1
    /\ cell = 5
    /\ Prompt
    /\ IF CodeCells[cell].source[1].reads \subseteq namespace
       THEN /\ radius' \in Radii
            /\ timeseries' = <<>>
            /\ it' = 0
            /\ pc' = "for"
            /\ UNCHANGED <<cell, raised>>
       ELSE /\ raised' = "NameError"
            /\ cell' = cell + 1
            /\ UNCHANGED <<radius, timeseries, it, pc>>
    /\ UNCHANGED <<nb, namespace, trajectory, frame, ca, out, ca_df, contactsVars>>

\* (the frames numbered from 1)
ForBodyOneBased ==
    /\ UNCHANGED <<fractionVars, pytestVars, history>>
    /\ pc = "for"
    /\ it < Len(trajectory)
    /\ frame' = it
    /\ LET ts == [frame |-> frame' + 1]
       IN  timeseries' =
               Append(timeseries, <<ts.frame, n_contacts(acidic, basic, frame', radius)>>)
    /\ it' = it + 1
    /\ UNCHANGED <<nb, cell, namespace, In, execution_count, raised, trajectory,
                   radius, pc, ca, out, ca_df, contactsVars>>

\* (the iteration taken up at the frame the trajectory is at, wrapping round)
ForBodyFromCurrentFrame ==
    /\ UNCHANGED <<fractionVars, pytestVars, history>>
    /\ pc = "for"
    /\ it < Len(trajectory)
    /\ frame' = (IF it = 0 THEN frame ELSE frame + 1) % Len(trajectory)
    /\ LET ts == [frame |-> frame']
       IN  timeseries' =
               Append(timeseries, <<ts.frame, n_contacts(acidic, basic, frame', radius)>>)
    /\ it' = it + 1
    /\ UNCHANGED <<nb, cell, namespace, In, execution_count, raised, trajectory,
                   radius, pc, ca, out, ca_df, contactsVars>>

\* for ts in u.trajectory: the reader moves the universe to the next frame and
\* the body appends [ts.frame, n_contacts]
ForBody ==
    /\ UNCHANGED <<fractionVars, pytestVars, history>>
    /\ pc = "for"
    /\ it < Len(trajectory)
    /\ frame' = it
    /\ LET ts == [frame |-> frame']
       IN  timeseries' =
               Append(timeseries, <<ts.frame, n_contacts(acidic, basic, frame', radius)>>)
    /\ it' = it + 1
    /\ UNCHANGED <<nb, cell, namespace, In, execution_count, raised, trajectory,
                   radius, pc, ca, out, ca_df, contactsVars>>

\* The loop is exhausted (the reader rewinds), the function returns
\* np.array(timeseries), cell 5 binds ca and shows ca.shape.
Return ==
    /\ UNCHANGED <<fractionVars, pytestVars, history>>
    /\ pc = "for"
    /\ it = Len(trajectory)
    /\ frame' = 0
    /\ ca' = np_array(timeseries)
    /\ LET res == ExecStmts(namespace \cup CodeCells[cell].source[1].binds,
                            Tail(CodeCells[cell].source))
       IN  /\ namespace' = res.namespace
           /\ raised' = res.raised
    /\ out' = ca'.shape
    /\ pc' = "idle"
    /\ cell' = cell + 1
    /\ UNCHANGED <<nb, In, execution_count, trajectory, radius, it, timeseries,
                   ca_df, contactsVars>>

\* Cell 5 of the second notebook starts: contacts.Contacts(u, selection,
\* refgroup, method, radius, kwargs) measures the reference at the frame the
\* universe is at, and run() allocates one row per frame and one column per
\* reference pair after the frame column.
NewContacts ==
    /\ UNCHANGED <<fractionVars, pytestVars, history>>
    /\ pc = "idle"
    /\ nb = 2
    /\ cell = 5
    /\ Prompt
    /\ IF CodeCells[cell].source[1].reads \subseteq namespace
       THEN /\ radius' \in ContactsRadii
            /\ kwargs' \in KwargsChoices
            /\ r0' = << distance_array(positions(acidic, frame), positions(basic, frame)) >>
            /\ initial_contacts' = << contact_matrix(r0'[1], radius') >>
            /\ timeseries' = prepare(Len(trajectory), Len(r0'))
            /\ calls' = <<>>
            /\ it' = 0
            /\ pc' = "run"
            /\ UNCHANGED <<cell, raised>>
       ELSE /\ raised' = "NameError"
            /\ cell' = cell + 1
            /\ UNCHANGED <<radius, timeseries, it, pc, contactsVars>>
    /\ UNCHANGED <<nb, namespace, trajectory, frame, ca, out, ca_df>>

\* One frame of run(): the distances of the pairs in contact in the reference,
\* now (r) and in the reference (r0), go to the method with the kwargs.
SingleFrame ==
    /\ UNCHANGED <<fractionVars, pytestVars, history>>
    /\ pc = "run"
    /\ it < Len(trajectory)
    /\ frame' = it
    /\ LET ts == [frame |-> frame']
           d == distance_array(positions(acidic, frame'), positions(basic, frame'))
           call(i) == MethodCall(d, i)
           y(i) == CallMethod(call(i).args[1], call(i).args[2], call(i).kwargs)
       IN  /\ timeseries' = [timeseries EXCEPT !.data[it + 1] =
                                <<ts.frame>> \o [i \in 1..Len(r0) |-> y(i)]]
           /\ calls' = calls \o [i \in 1..Len(r0) |-> call(i)]
    /\ it' = it + 1
    /\ UNCHANGED <<nb, cell, namespace, In, execution_count, raised, trajectory,
                   radius, pc, ca, out, ca_df, r0, initial_contacts, kwargs>>

\* run() has visited every frame (the reader rewinds) and returns the analysis;
\* cell 5 binds it to ca, and ca.timeseries is the array.
Conclude ==
    /\ UNCHANGED <<fractionVars, pytestVars, history>>
    /\ pc = "run"
    /\ it = Len(trajectory)
    /\ frame' = 0
    /\ ca' = timeseries
    /\ LET res == ExecStmts(namespace \cup CodeCells[cell].source[1].binds,
                            Tail(CodeCells[cell].source))
       IN  /\ namespace' = res.namespace
           /\ raised' = res.raised
    /\ pc' = "idle"
    /\ cell' = cell + 1
    /\ UNCHANGED <<nb, In, execution_count, trajectory, radius, it, timeseries,
                   out, ca_df, contactsVars>>

\* Cell 6: ca_df = pd.DataFrame(ca or ca.timeseries, columns=[two names])
BuildDataFrame ==
    /\ UNCHANGED <<fractionVars, pytestVars, history>>
    /\ pc = "idle"
    /\ cell = 6
    /\ Prompt
    /\ IF CodeCells[cell].source[1].reads \subseteq namespace
       THEN LET df == DataFrame(ca, <<"Frame", "Contacts">>)
                res == ExecStmts(namespace \cup CodeCells[cell].source[1].binds,
                                 Tail(CodeCells[cell].source))
            IN  IF df.raised = "none"
                THEN /\ ca_df' = df.shape
                     /\ namespace' = res.namespace
                     /\ raised' = res.raised
                ELSE /\ raised' = df.raised
                     /\ UNCHANGED <<ca_df, namespace>>
       ELSE /\ raised' = "NameError"
            /\ UNCHANGED <<ca_df, namespace>>
    /\ cell' = cell + 1
    /\ UNCHANGED <<nb, trajectory, frame, radius, pc, it, timeseries, ca, out,
                   contactsVars>>

Next ==
    \/ RunCell
    \/ LoadUniverse
    \/ CallContactsWithinCutoff
    \/ ForBody
    \/ Return
    \/ NewContacts
    \/ SingleFrame
    \/ Conclude
    \/ BuildDataFrame

Spec == Init /\ [][Next]_vars

----------------------------------------------------------------------------
(* The first notebook with cell 5 run a second time, the trajectory left at
   any frame in between *)

InitRepeat == Init /\ nb = 1

\* After cell 5 the array is kept, the trajectory is moved to frame k
\* (u.trajectory[k]) and cell 5 is selected again.
RunAgain ==
    /\ UNCHANGED <<fractionVars, pytestVars>>
    /\ pc = "idle"
    /\ nb = 1
    /\ cell = 6
    /\ raised = "none"
    /\ history = <<>>
    /\ \E k \in 0..(Len(trajectory) - 1) :
          /\ frame' = k
          /\ history' = << [radius |-> radius, ca |-> ca, seek |-> k] >>
    /\ cell' = 5
    /\ UNCHANGED <<nb, namespace, In, execution_count, raised, trajectory, radius, pc,
                   it, timeseries, ca, out, ca_df, contactsVars>>

NextRepeat ==
    \/ RunCell
    \/ LoadUniverse
    \/ CallContactsWithinCutoff
    \/ ForBody
    \/ Return
    \/ RunAgain

SpecRepeat == InitRepeat /\ [][NextRepeat]_vars

----------------------------------------------------------------------------
(* fraction_contacts_between called on its own *)

MaxLen == 2

\* distances around the bounds the notebook uses (2.4, 2.5, 3.4, 5.0)
Dists == {24, 25, 30, 34, 50}

\* the keyword arguments of a call: each of radius and min_radius given or not
FractionKwargs ==
    {kw \in UNION {[D -> {24, 25, 34, 50}] : D \in SUBSET {"radius", "min_radius"}} :
        /\ "radius" \in DOMAIN kw => kw["radius"] \in {34, 50}
        /\ "min_radius" \in DOMAIN kw => kw["min_radius"] \in {24, 25, 50}}

InitFraction ==
    /\ FreshKernel
    /\ PytestIdle
    /\ nb = 2
    /\ arg_r \in SeqsUpTo(Dists, MaxLen)
    /\ arg_r0 \in {arg_r, [i \in 1..Len(arg_r) |-> 30]}
    /\ arg_kwargs \in FractionKwargs
    /\ returned = <<0, 0>>
    /\ fpc = "call"

\* fraction_contacts_between(r, r0, **kwargs)
Evaluate ==
    /\ fpc = "call"
    /\ returned' = CallMethod(arg_r, arg_r0, arg_kwargs)
    /\ fpc' = "returned"
    /\ UNCHANGED <<notebookVars, pytestVars, arg_r, arg_r0, arg_kwargs>>

NextFraction == Evaluate

SpecFraction == InitFraction /\ [][NextFraction]_vars

----------------------------------------------------------------------------
(* A pytest session over test functions written as the testing guide says *)

\* @pytest.mark.parametrize(argnames, argvalues)
Mark(argnames, argvalues) == [argnames |-> argnames, argvalues |-> argvalues]

TestFunction(module, class, name, marks) ==
    [module |-> module, class |-> class, name |-> name, marks |-> marks]

\* The marks of a function are listed from the decorator nearest to the def
\* outwards, the order in which pytest applies them.
TestFunctions ==
    << TestFunction("test_pdb", "TestPDB", "test_pdb_write", <<>>),
       TestFunction("test_pdb", "TestPDB", "test_center_of_mass_compounds_special",
           << Mark(<<"name", "compound">>,
                   << <<"molnums", "molecules">>, <<"fragindices", "fragments">> >>),
              Mark(<<"pbc">>, << <<"True">>, <<"False">> >>) >>),
       TestFunction("test_pdb", "TestTimestep", "test_foo_is_length_3", <<>>),
       TestFunction("test_align", "TestAlign", "test_equal_coordinates", <<>>),
       TestFunction("test_align", "TestAlign", "test_equal_arrays", <<>>) >>

Scopes == {"function", "class", "module"}

\* one parameter set bound to the argument names
Bind(argnames, values) ==
    [a \in {argnames[i] : i \in 1..Len(argnames)} |->
        values[CHOOSE i \in 1..Len(argnames) : argnames[i] = a]]

\* (the parameter sets paired with the calls made so far instead of multiplied)
parametrize_zip(_calls, argnames, argvalues) ==
    IF _calls = <<>>
    THEN [p \in 1..Len(argvalues) |-> Bind(argnames, argvalues[p])]
    ELSE [p \in 1..(IF Len(_calls) < Len(argvalues) THEN Len(_calls) ELSE Len(argvalues)) |->
             _calls[p] @@ Bind(argnames, argvalues[p])]

\* Metafunc.parametrize: every call made so far (one empty call when there is
\* none) is multiplied by the parameter sets of the mark
parametrize(_calls, argnames, argvalues) ==
    LET base == IF _calls = <<>> THEN << <<>> >> ELSE _calls
    IN  Flatten([c \in 1..Len(base) |->
                    [p \in 1..Len(argvalues) |-> base[c] @@ Bind(argnames, argvalues[p])]])

\* the test items of function f: one per call, or one without parameters
Generated(f, _calls) ==
    IF _calls = <<>> THEN << [fn |-> f, params |-> <<>>] >>
    ELSE [c \in 1..Len(_calls) |-> [fn |-> f, params |-> _calls[c]]]

\* (every fixture kept for the whole module, whatever its scope)
ScopeNodeModule(sc, k) ==
    [kind |-> "module", module |-> TestFunctions[items[k].fn].module, class |-> "", item |-> 0]

\* the node of item k that holds a fixture of scope sc: the item itself, its
\* class or its module
ScopeNode(sc, k) ==
    [kind   |-> sc,
     module |-> TestFunctions[items[k].fn].module,
     class  |-> IF sc = "module" THEN "" ELSE TestFunctions[items[k].fn].class,
     item   |-> IF sc = "function" THEN k ELSE 0]

\* the nodes item k lies in
listchain(k) == {ScopeNode(sc, k) : sc \in Scopes}

InitPytest ==
    /\ FreshKernel
    /\ nb = 1
    /\ FractionIdle
    /\ scope \in Scopes
    /\ uses \in {U \in SUBSET (1..Len(TestFunctions)) : 2 \in U}
    /\ phase = "collect"
    /\ fn = 1
    /\ marks_left = TestFunctions[1].marks
    /\ callspecs = <<>>
    /\ items = <<>>
    /\ current = 0
    /\ cached = FALSE
    /\ log = <<>>
    /\ OutcomesIdle

\* collection: the next parametrize mark of the function is applied
Parametrize ==
    /\ phase = "collect"
    /\ marks_left # <<>>
    /\ callspecs' = parametrize(callspecs, Head(marks_left).argnames,
                                Head(marks_left).argvalues)
    /\ marks_left' = Tail(marks_left)
    /\ UNCHANGED outcomeVars
    /\ UNCHANGED <<notebookVars, fractionVars, scope, uses, phase, fn, items, current,
                   cached, log>>

\* collection: the items of the function are made; the next function follows,
\* or the run starts with the first item
Generate ==
    /\ phase = "collect"
    /\ marks_left = <<>>
    /\ items' = items \o Generated(fn, callspecs)
    /\ callspecs' = <<>>
    /\ IF fn < Len(TestFunctions)
       THEN /\ fn' = fn + 1
            /\ marks_left' = TestFunctions[fn + 1].marks
            /\ UNCHANGED <<phase, current>>
       ELSE /\ phase' = "setup"
            /\ current' = 1
            /\ UNCHANGED <<fn, marks_left>>
    /\ UNCHANGED outcomeVars
    /\ UNCHANGED <<notebookVars, fractionVars, scope, uses, cached, log>>

\* setup of the item: a fixture it takes is run unless a cached result is kept
Setup ==
    /\ phase = "setup"
    /\ IF items[current].fn \in uses /\ ~cached
       THEN /\ log' = Append(log, [event |-> "fixture", item |-> current])
            /\ cached' = TRUE
       ELSE UNCHANGED <<log, cached>>
    /\ phase' = "call"
    /\ UNCHANGED outcomeVars
    /\ UNCHANGED <<notebookVars, fractionVars, scope, uses, fn, marks_left, callspecs,
                   items, current>>

\* the test function is called
Call ==
    /\ phase = "call"
    /\ log' = Append(log, [event |-> "test", item |-> current])
    /\ phase' = "teardown"
    /\ UNCHANGED outcomeVars
    /\ UNCHANGED <<notebookVars, fractionVars, scope, uses, fn, marks_left, callspecs,
                   items, current, cached>>

\* teardown towards the next item: the nodes the next item does not lie in are
\* torn down, and with its node the fixture's cached result
Teardown ==
    /\ phase = "teardown"
    /\ cached' = (/\ cached
                  /\ current < Len(items)
                  /\ ScopeNode(scope, current) \in listchain(current + 1))
    /\ IF current < Len(items)
       THEN /\ current' = current + 1
            /\ phase' = "setup"
       ELSE /\ phase' = "done"
            /\ UNCHANGED current
    /\ UNCHANGED outcomeVars
    /\ UNCHANGED <<notebookVars, fractionVars, scope, uses, fn, marks_left, callspecs,
                   items, log>>

NextPytest == Parametrize \/ Generate \/ Setup \/ Call \/ Teardown

SpecPytest == InitPytest /\ [][NextPytest]_vars

----------------------------------------------------------------------------
(* A pytest session over the example tests of the testing guide: what each
   test ends as, and what the session ends as *)

\* the exception classes met here, each with its base class; pytest's own
\* Failed and Skipped derive from BaseException, not from Exception
Base ==
    [IndexError |-> "LookupError", KeyError |-> "LookupError",
     LookupError |-> "Exception", OSError |-> "Exception",
     AssertionError |-> "Exception", AttributeError |-> "Exception",
     Exception |-> "BaseException", Failed |-> "BaseException",
     Skipped |-> "BaseException", BaseException |-> "object"]

\* isinstance(exc, E) for a raised exception of class c
RECURSIVE IsInstance(_, _)
IsInstance(c, E) ==
    IF c = E THEN TRUE
    ELSE IF c \notin DOMAIN Base THEN FALSE
    ELSE IsInstance(Base[c], E)

\* (positions counted from one)
getitem_one_based(a, i) ==
    IF (1 <= i /\ i <= Len(a)) \/ (-Len(a) <= i /\ i < 0) THEN "None" ELSE "IndexError"

\* b = a[i]: what the statement raises ("None": nothing)
getitem(a, i) ==
    IF -Len(a) <= i /\ i < Len(a) THEN "None" ELSE "IndexError"

\* (a block that raises nothing is let through)
raises_lenient(E, exc) ==
    IF exc = "None" \/ IsInstance(exc, E) THEN "None" ELSE exc

\* with pytest.raises(E): what leaves the block when exc is raised inside it
raises(E, exc) ==
    IF exc = "None" THEN "Failed"
    ELSE IF IsInstance(exc, E) THEN "None"
    ELSE exc

\* the example tests, in the order of the guide
OutcomeTest(name, xfail, skip, fixtures) ==
    [name |-> name, xfail |-> xfail, skipif |-> skip, fixtures |-> fixtures]

OutcomeTests ==
    << OutcomeTest("test_for_error", FALSE, FALSE, {}),
       OutcomeTest("tested_expected_failure", TRUE, FALSE, {}),
       OutcomeTest("test_open", FALSE, FALSE, {"tmpdir"}),
       OutcomeTest("test_positions_share_memory", FALSE, TRUE, {"original_and_copy"}) >>

test_for_error == raises(env.expected, getitem(<<1, 2, 3>>, env.index))

tested_expected_failure == IF 1 = env.rhs THEN "None" ELSE "AssertionError"

test_open ==
    IF env.writer # "None" /\ IsInstance(env.writer, "Exception") THEN "Failed"
    ELSE env.writer

test_positions_share_memory ==
    IF shares_memory # "function" THEN "AttributeError"
    ELSE IF env.shares THEN "AssertionError"
    ELSE "None"

\* what calling test k raises
Body(k) ==
    CASE k = 1 -> test_for_error
      [] k = 2 -> tested_expected_failure
      [] k = 3 -> test_open
      [] k = 4 -> test_positions_share_memory

\* try: from numpy import shares_memory / except ImportError: shares_memory = False
import_shares_memory(has) == IF has THEN "function" ELSE "False"

\* (the test skipped when shares_memory is there)
skipif_condition_negated(sm) == sm # "False"

\* the condition of the mark: shares_memory == False
skipif_condition(sm) == sm = "False"

\* setup of test k: the skipif mark is looked at, then the fixtures are set up
setup(k) ==
    IF OutcomeTests[k].skipif /\ skipif THEN "Skipped"
    ELSE IF env.fixture \in OutcomeTests[k].fixtures THEN "OSError"
    ELSE "None"

\* (the xfail mark not looked at)
makereport_no_xfail(k, when, exc) ==
    [test |-> k, when |-> when, wasxfail |-> FALSE,
     outcome |-> IF exc = "None" THEN "passed"
                 ELSE IF exc = "Skipped" THEN "skipped"
                 ELSE "failed"]

\* pytest_runtest_makereport: the report of one phase of test k that raised exc
makereport(k, when, exc) ==
    [test |-> k, when |-> when,
     wasxfail |-> OutcomeTests[k].xfail /\ exc # "Skipped" /\ (exc # "None" \/ when = "call"),
     outcome |-> IF exc = "None" THEN "passed"
                 ELSE IF exc = "Skipped" THEN "skipped"
                 ELSE IF OutcomeTests[k].xfail THEN "skipped"
                 ELSE "failed"]

\* runtestprotocol: the call is made when the setup passed; the report kept is
\* that of the phase that decides the test
runtestprotocol(k) ==
    IF setup(k) # "None" THEN makereport(k, "setup", setup(k))
    ELSE makereport(k, "call", Body(k))

\* pytest_report_teststatus: the word the test is listed under
teststatus(rep) ==
    CASE rep.outcome = "passed"  -> IF rep.wasxfail THEN "XPASS" ELSE "PASSED"
      [] rep.outcome = "skipped" -> IF rep.wasxfail THEN "XFAIL" ELSE "SKIPPED"
      [] rep.outcome = "failed"  -> IF rep.when = "call" THEN "FAILED" ELSE "ERROR"

\* (Session.pytest_runtest_logreport counting whatever did not pass)
logreport_not_passed(n, rep) == IF rep.outcome # "passed" THEN n + 1 ELSE n

\* Session.pytest_runtest_logreport: testsfailed after the report
logreport(n, rep) == IF rep.outcome = "failed" /\ ~rep.wasxfail THEN n + 1 ELSE n

Exceptions == {"IndexError", "LookupError", "KeyError", "Exception"}

Indices == {-4, -3, 0, 2, 3, 4}

WriterErrors == {"None", "OSError", "KeyError"}

FailingFixtures == {"None", "tmpdir", "original_and_copy"}

InitOutcomes ==
    /\ FreshKernel
    /\ nb = 1
    /\ FractionIdle
    /\ scope = "function" /\ uses = {} /\ phase = "idle" /\ fn = 0
    /\ marks_left = <<>> /\ callspecs = <<>> /\ items = <<>>
    /\ current = 0 /\ cached = FALSE /\ log = <<>>
    /\ env \in [numpy_has : BOOLEAN, writer : WriterErrors, index : Indices,
                expected : Exceptions, rhs : {1, 2}, shares : BOOLEAN,
                fixture : FailingFixtures]
    /\ shares_memory = "unbound"
    /\ skipif = FALSE
    /\ opc = "import"
    /\ reports = <<>>
    /\ testsfailed = 0
    /\ exitstatus = -1

\* collection imports the test module: its module-level statements run and the
\* decorators evaluate their arguments
ImportTestModule ==
    /\ opc = "import"
    /\ shares_memory' = import_shares_memory(env.numpy_has)
    /\ skipif' = skipif_condition(shares_memory')
    /\ opc' = "run"
    /\ UNCHANGED <<notebookVars, fractionVars, collectVars, env, reports, testsfailed,
                   exitstatus>>

\* the next test is run and reported
RunTest ==
    /\ opc = "run"
    /\ Len(reports) < Len(OutcomeTests)
    /\ reports' = Append(reports, runtestprotocol(Len(reports) + 1))
    /\ testsfailed' = logreport(testsfailed, reports'[Len(reports')])
    /\ UNCHANGED <<notebookVars, fractionVars, collectVars, env, shares_memory, skipif,
                   opc, exitstatus>>

\* the session ends: exit status 1 when tests failed, 0 otherwise
Finish ==
    /\ opc = "run"
    /\ Len(reports) = Len(OutcomeTests)
    /\ exitstatus' = IF testsfailed > 0 THEN 1 ELSE 0
    /\ opc' = "done"
    /\ UNCHANGED <<notebookVars, fractionVars, collectVars, env, shares_memory, skipif,
                   reports, testsfailed>>

NextOutcomes == ImportTestModule \/ RunTest \/ Finish

SpecOutcomes == InitOutcomes /\ [][NextOutcomes]_vars

----------------------------------------------------------------------------
(* Properties *)

\* separation of atoms a and b at frame f (0-based) of the trajectory
Separation(f, a, b) == Abs(trajectory[f + 1][a] - trajectory[f + 1][b])

\* the pairs (i, j): atom i of group_a, atom j of group_b
PairsOf(group_a, group_b) == (1..Len(group_a)) \X (1..Len(group_b))

PairsBelow(f, rad) ==
    {p \in PairsOf(acidic, basic) : Separation(f, acidic[p[1]], basic[p[2]]) < rad}

PairsAt(f, rad) ==
    {p \in PairsOf(acidic, basic) : Separation(f, acidic[p[1]], basic[p[2]]) = rad}

\* contacts_within_cutoff has returned and cell 5 has bound ca
Returned == nb = 1 /\ "ca" \in namespace

\* C1: contacts_within_cutoff returns an array of shape (N, 2) for a trajectory
\* of N frames: row i holds the frame index i - 1 of the i-th frame visited and
\* the number of contacts computed at that frame; while the loop runs, the list
\* has one row for each frame visited so far.
C1_OneRowPerFrame ==
    /\ (nb = 1 /\ pc = "for") =>
           /\ Len(timeseries) = it
           /\ \A i \in 1..Len(timeseries) : timeseries[i][1] = i - 1
    /\ Returned =>
           /\ ca.shape = <<Len(trajectory), 2>>
           /\ out = <<Len(trajectory), 2>>
           /\ Len(ca.data) = Len(trajectory)
           /\ \A i \in 1..Len(ca.data) :
                  /\ Len(ca.data[i]) = 2
                  /\ ca.data[i][1] = i - 1
                  /\ ca.data[i][2] = n_contacts(acidic, basic, ca.data[i][1], radius)

C1_Witness ==
    /\ Returned
    /\ Len(trajectory) >= 2
    /\ ca.data[1][2] # ca.data[2][2]

\* C2 as stated: the count of every frame is the number of pairs (a, b) whose
\* separation at that frame is below the radius.
C2_CountsPairsBelowRadius ==
    Returned =>
        \A i \in 1..Len(ca.data) : ca.data[i][2] = Cardinality(PairsBelow(i - 1, radius))

\* C2 as amended: the count of every frame is the number of pairs (a, b) whose
\* separation at that frame is at most the radius, each counted once.
C2_CountsPairsWithinRadius ==
    Returned =>
        \A i \in 1..Len(ca.data) :
            ca.data[i][2] = Cardinality({p \in PairsOf(acidic, basic) :
                                Separation(i - 1, acidic[p[1]], basic[p[2]]) <= radius})

C2_Witness ==
    /\ Returned
    /\ \E i \in 1..Len(ca.data) :
           /\ ca.data[i][2] = 1
           /\ PairsAt(i - 1, radius) # {}
    /\ \E i \in 1..Len(ca.data) : ca.data[i][2] = 2

\* C3: the cutoff is inclusive: at every frame the pairs exactly at the radius
\* are counted, so the count exceeds the number of pairs strictly below the
\* radius by the number of pairs exactly at it.
C3_CutoffInclusive ==
    Returned =>
        \A i \in 1..Len(ca.data) :
            ca.data[i][2] - Cardinality(PairsBelow(i - 1, radius))
                = Cardinality(PairsAt(i - 1, radius))

C3_Witness ==
    /\ Returned
    /\ \E i \in 1..Len(ca.data) :
           /\ Cardinality(PairsAt(i - 1, radius)) = 2
           /\ ca.data[i][2] = 2

\* the entries of r strictly between lo and hi
Between(r, lo, hi) == {i \in 1..Len(r) : lo < r[i] /\ r[i] < hi}

\* C4: fraction_contacts_between returns the number of entries of r strictly
\* below radius and strictly above min_radius, over the number of entries of r.
C4_FractionStrictlyBetween ==
    fpc = "returned" =>
        LET rad == IF "radius" \in DOMAIN arg_kwargs THEN arg_kwargs["radius"] ELSE 34
            min == IF "min_radius" \in DOMAIN arg_kwargs
                   THEN arg_kwargs["min_radius"] ELSE 25
        IN  returned = <<Cardinality(Between(arg_r, min, rad)), Len(arg_r)>>

C4_Witness ==
    /\ fpc = "returned"
    /\ arg_kwargs = [radius |-> 50, min_radius |-> 24]
    /\ arg_r = <<50, 24>>
    /\ returned = <<0, 2>>

\* C5: the method is called with the keyword arguments of kwargs and no others:
\* when kwargs has no radius the fraction is taken with the default 3.4 (2.5
\* for min_radius), whatever the radius of contacts.Contacts.
C5_RadiusNotPassedOn ==
    nb = 2 =>
        \A k \in 1..Len(calls) :
            LET rad == IF "radius" \in DOMAIN kwargs THEN kwargs["radius"] ELSE 34
                min == IF "min_radius" \in DOMAIN kwargs
                       THEN kwargs["min_radius"] ELSE 25
                r == calls[k].args[1]
            IN  /\ calls[k].kwargs = kwargs
                /\ timeseries.data[k][2] = <<Cardinality(Between(r, min, rad)), Len(r)>>

C5_Witness ==
    /\ nb = 2
    /\ "ca" \in namespace
    /\ "radius" \notin DOMAIN kwargs
    /\ radius = 50
    /\ \E k \in 1..Len(calls) :
           /\ \E i \in 1..Len(calls[k].args[1]) : calls[k].args[1][i] = 40
           /\ ca.data[k][2][1] = 0

\* the pairs of (acidic, basic), row by row
PairSeq ==
    [k \in 1..(Len(acidic) * Len(basic)) |->
        <<((k - 1) \div Len(basic)) + 1, ((k - 1) % Len(basic)) + 1>>]

\* in contact in the reference: the frame a fresh universe is at, frame 0
IsNative(p) == Separation(0, acidic[p[1]], basic[p[2]]) <= radius

NativeSeq == SelectSeq(PairSeq, IsNative)

\* C6: run() calls the method once per frame, with two positional arguments,
\* r (the distances at that frame) and r0 (the distances in the reference) of
\* the same pairs, and after them keyword arguments only.
C6_MethodCalledWithRAndR0 ==
    nb = 2 =>
        /\ pc = "run" => Len(calls) = it
        /\ "ca" \in namespace => Len(calls) = Len(trajectory)
        /\ \A k \in 1..Len(calls) :
               /\ Len(calls[k].args) = 2
               /\ calls[k].args[1] =
                      [n \in 1..Len(NativeSeq) |->
                          Separation(k - 1, acidic[NativeSeq[n][1]], basic[NativeSeq[n][2]])]
               /\ calls[k].args[2] =
                      [n \in 1..Len(NativeSeq) |->
                          Separation(0, acidic[NativeSeq[n][1]], basic[NativeSeq[n][2]])]
               /\ Len(calls[k].args[1]) = Len(calls[k].args[2])
               /\ DOMAIN calls[k].kwargs \subseteq {"radius", "min_radius"}

C6_Witness ==
    /\ nb = 2
    /\ "ca" \in namespace
    /\ Len(calls) = 2
    /\ Len(calls[2].args[1]) = 2
    /\ calls[2].args[1] # calls[2].args[2]

\* C7: after run() with one reference pair, ca.timeseries has one row per frame
\* and two columns, the frame index and the value the method returned for that
\* frame, and the DataFrame with two column names is built.
C7_TimeseriesTwoColumns ==
    /\ (nb = 2 /\ "ca" \in namespace) =>
           /\ ca.shape = <<Len(trajectory), 2>>
           /\ Len(ca.data) = Len(trajectory)
           /\ \A k \in 1..Len(ca.data) :
                  /\ Len(ca.data[k]) = 2
                  /\ ca.data[k][1] = k - 1
                  /\ ca.data[k][2] =
                         CallMethod(calls[k].args[1], calls[k].args[2], calls[k].kwargs)
    /\ (nb = 2 /\ In[6] # 0) =>
           /\ raised # "ValueError"
           /\ "ca_df" \in namespace
           /\ ca_df = <<Len(trajectory), 2>>

C7_Witness ==
    /\ nb = 2
    /\ In[6] # 0
    /\ ca_df = <<2, 2>>
    /\ Len(r0) = 1

\* C8: in both notebooks, running the code cells top to bottom in a fresh kernel
\* never reads an unbound name, and the prompt number of every cell is the
\* execution count recorded for it, which is its position.
C8_NamesBoundBeforeUse ==
    /\ raised # "NameError"
    /\ \A k \in 1..7 :
           In[k] # 0 => (In[k] = k /\ CodeCells[k].execution_count = In[k])
    /\ cell > 7 => {"mda", "contacts", "np", "pd", "plt", "u", "sel_basic", "sel_acidic",
                    "acidic", "basic", "ca", "ca_df"} \subseteq namespace

C8_Witness ==
    /\ cell = 8
    /\ execution_count = 7
    /\ "ca_df" \in namespace

\* the items collected for test_center_of_mass_compounds_special
SpecialItems == {k \in 1..Len(items) : items[k].fn = 2}

\* the calls of item k made so far
CallsOf(k) == {i \in 1..Len(log) : log[i].event = "test" /\ log[i].item = k}

Combination(pbc, name, compound) == [pbc |-> pbc, name |-> name, compound |-> compound]

\* C9: the two stacked parametrize marks make four items of
\* test_center_of_mass_compounds_special, one for each combination of pbc with
\* (name, compound), none missing or repeated, and each is run once.
C9_StackedParametrizeProduct ==
    phase \in {"setup", "call", "teardown", "done"} =>
        /\ Cardinality(SpecialItems) = 4
        /\ {items[k].params : k \in SpecialItems} =
               { Combination("True", "molnums", "molecules"),
                 Combination("True", "fragindices", "fragments"),
                 Combination("False", "molnums", "molecules"),
                 Combination("False", "fragindices", "fragments") }
        /\ \A k \in SpecialItems : Cardinality(CallsOf(k)) <= 1
        /\ phase = "done" => \A k \in SpecialItems : Cardinality(CallsOf(k)) = 1

C9_Witness ==
    /\ phase = "done"
    /\ Cardinality({i \in 1..Len(log) : log[i].event = "test" /\ log[i].item \in SpecialItems}) = 4

\* items j and k lie in the same extent of a fixture of scope sc
SameExtent(sc, j, k) ==
    LET f == TestFunctions[items[j].fn]
        g == TestFunctions[items[k].fn]
    IN  CASE sc = "function" -> j = k
          [] sc = "class"    -> f.module = g.module /\ f.class = g.class
          [] sc = "module"   -> f.module = g.module

FixtureRuns == {i \in 1..Len(log) : log[i].event = "fixture"}

\* C10: a fixture of function scope is run before each test that takes it, one
\* of class scope once per class and one of module scope once per module whose
\* tests take it, and it has always run before the first test that takes it.
C10_FixtureScopes ==
    phase \in {"setup", "call", "teardown", "done"} =>
        /\ \A i \in FixtureRuns : items[log[i].item].fn \in uses
        /\ \A i, j \in FixtureRuns :
               i # j => ~SameExtent(scope, log[i].item, log[j].item)
        /\ \A i \in 1..Len(log) :
               (log[i].event = "test" /\ items[log[i].item].fn \in uses) =>
                   \E j \in FixtureRuns :
                       /\ j < i
                       /\ SameExtent(scope, log[j].item, log[i].item)
        /\ scope = "function" =>
               \A i \in 1..Len(log) :
                   (log[i].event = "test" /\ items[log[i].item].fn \in uses) =>
                       (i > 1 /\ log[i - 1] = [event |-> "fixture", item |-> log[i].item])

C10_Witness ==
    /\ phase = "done"
    /\ scope = "class"
    /\ uses = {1, 2, 3, 5}
    /\ Cardinality(FixtureRuns) = 3

\* the word test k of the example tests is listed under
Status(k) == teststatus(reports[k])

\* C11: a finished run is acceptable (exit status 0) exactly when no test is
\* listed as FAILED or ERROR, so SKIPPED and XFAIL tests leave it acceptable;
\* and the xfail-marked test whose assertion 1 == 2 fails is listed as XFAIL.
C11_AcceptableRun ==
    /\ opc = "done" =>
          (exitstatus = 0 <=>
              \A k \in 1..Len(reports) : Status(k) \notin {"FAILED", "ERROR"})
    /\ (Len(reports) >= 2 /\ env.rhs = 2) => Status(2) = "XFAIL"

\* an acceptable finished run with the xfail test XFAIL and another test SKIPPED
C11_Witness ==
    /\ opc = "done"
    /\ exitstatus = 0
    /\ env.rhs = 2
    /\ Status(2) = "XFAIL"
    /\ Status(4) = "SKIPPED"

\* C12: test_positions_share_memory is skipped exactly when the import of
\* shares_memory raised ImportError (the name is then False and the mark's
\* condition true); when the import succeeded the condition is false and the
\* test is set up and, its fixture given, called.
C12_SkippedWithoutSharesMemory ==
    Len(reports) >= 4 =>
        /\ Status(4) = "SKIPPED" <=> ~env.numpy_has
        /\ ~env.numpy_has => shares_memory = "False" /\ skipif
        /\ env.numpy_has =>
              /\ ~skipif
              /\ env.fixture # "original_and_copy" => reports[4].when = "call"

\* the import failed and the test was skipped
C12_Witness ==
    /\ Len(reports) >= 4
    /\ ~env.numpy_has
    /\ Status(4) = "SKIPPED"

\* C13: test_for_error, its body inside pytest.raises(E), passes exactly when
\* the indexing raises an instance of E (for E = IndexError and position 4 of
\* the three-element list it passes); test_open, its fixture given, fails
\* exactly when the writer raises an Exception and passes otherwise.
C13_RaisesAndFail ==
    /\ Len(reports) >= 1 =>
          /\ Status(1) = "PASSED" <=>
                /\ env.index \notin {-3, -2, -1, 0, 1, 2}
                /\ env.expected \in {"IndexError", "LookupError", "Exception"}
          /\ (env.index = 4 /\ env.expected = "IndexError") => Status(1) = "PASSED"
    /\ (Len(reports) >= 3 /\ env.fixture # "tmpdir") =>
          /\ Status(3) = "FAILED" <=> env.writer # "None"
          /\ Status(3) = "PASSED" <=> env.writer = "None"

\* the guide's test_for_error passed and test_open failed on a writer error
C13_Witness ==
    /\ Len(reports) >= 3
    /\ env.index = 4 /\ env.expected = "IndexError"
    /\ Status(1) = "PASSED"
    /\ env.writer = "OSError" /\ env.fixture = "None"
    /\ Status(3) = "FAILED"

\* the pairs of a conformation within rad of each other
ContactsIn(conf, rad) ==
    {p \in PairsOf(acidic, basic) : Abs(conf[acidic[p[1]]] - conf[basic[p[2]]]) <= rad}

\* C14: the count of row i is that of the coordinates of the i-th frame of the
\* trajectory: while the loop runs the universe is at the frame just visited
\* and every row so far holds the count of its own frame, and so does every
\* row of the array returned.
C14_CountOfCurrentFrame ==
    /\ (nb = 1 /\ pc = "for") =>
           /\ it > 0 => frame = it - 1
           /\ \A i \in 1..Len(timeseries) :
                  timeseries[i][2] = Cardinality(ContactsIn(trajectory[i], radius))
    /\ Returned =>
           \A i \in 1..Len(ca.data) :
               ca.data[i][2] = Cardinality(ContactsIn(trajectory[i], radius))

\* returned for a trajectory whose second frame has another count than the
\* frame the groups were selected at
C14_Witness ==
    /\ Returned
    /\ Len(trajectory) >= 2
    /\ Cardinality(ContactsIn(trajectory[1], radius))
           # Cardinality(ContactsIn(trajectory[2], radius))
    /\ ca.data[2][2] = Cardinality(ContactsIn(trajectory[2], radius))

\* radii around the separations the conformations have
ProbeRadii == {0, 39, 40, 45, 50, 51}

\* C16: every count returned lies in 0 .. |group_a| * |group_b|, and at each
\* frame a smaller radius gives at most the count returned and a larger radius
\* at least that count.
C16_CountBoundedMonotone ==
    Returned =>
        \A i \in 1..Len(ca.data) :
            /\ ca.data[i][2] \in 0..(Len(acidic) * Len(basic))
            /\ \A rad \in ProbeRadii :
                   /\ rad <= radius =>
                          n_contacts(acidic, basic, i - 1, rad) <= ca.data[i][2]
                   /\ radius <= rad =>
                          ca.data[i][2] <= n_contacts(acidic, basic, i - 1, rad)

\* a frame whose count lies strictly between those of a smaller and of a
\* larger radius, the larger reaching |group_a| * |group_b|
C16_Witness ==
    /\ Returned
    /\ \E i \in 1..Len(ca.data) :
           /\ n_contacts(acidic, basic, i - 1, 39) < ca.data[i][2]
           /\ ca.data[i][2] < n_contacts(acidic, basic, i - 1, 50)
           /\ n_contacts(acidic, basic, i - 1, 50) = Len(acidic) * Len(basic)

\* C15: when cell 5 has been run a second time with the same radius, from
\* whichever frame the trajectory was left at, the array returned equals the
\* array of the first run; every run visits the frames from the first one on.
C15_Repeatable ==
    /\ (nb = 1 /\ pc = "for") => \A i \in 1..Len(timeseries) : timeseries[i][1] = i - 1
    /\ (Returned /\ pc = "idle" /\ cell = 6 /\ history # <<>>) =>
           (history[1].radius = radius => history[1].ca = ca)

\* the second run, started at the second frame with the same radius, has
\* returned an array whose rows differ
C15_Witness ==
    /\ Returned /\ pc = "idle" /\ cell = 6
    /\ history # <<>>
    /\ history[1].seek = 1
    /\ history[1].radius = radius
    /\ Len(ca.data) = 2
    /\ ca.data[1][2] # ca.data[2][2]

\* the bounds a call with the keyword arguments kw works with
RadiusOf(kw) == IF "radius" \in DOMAIN kw THEN kw["radius"] ELSE 34

MinRadiusOf(kw) == IF "min_radius" \in DOMAIN kw THEN kw["min_radius"] ELSE 25

InContact(x, kw) == MinRadiusOf(kw) < x /\ x < RadiusOf(kw)

\* C17: for a non-empty r the value n/d returned has d > 0 and 0 <= n <= d;
\* it is 1 (n = d) exactly when every entry of r lies strictly between
\* min_radius and radius, and 0 (n = 0) exactly when no entry does.
C17_FractionInUnitInterval ==
    (fpc = "returned" /\ arg_r # <<>>) =>
        /\ returned[2] > 0
        /\ 0 <= returned[1] /\ returned[1] <= returned[2]
        /\ returned[1] = returned[2] <=>
               \A i \in 1..Len(arg_r) : InContact(arg_r[i], arg_kwargs)
        /\ returned[1] = 0 <=>
               \A i \in 1..Len(arg_r) : ~InContact(arg_r[i], arg_kwargs)

\* a call that returned 1/2: one entry in contact, one at the lower bound
C17_Witness ==
    /\ fpc = "returned"
    /\ arg_r = <<30, 25>>
    /\ "min_radius" \notin DOMAIN arg_kwargs
    /\ returned = <<1, 2>>

\* C18: with min_radius >= radius the value returned for a non-empty r is 0
\* (0 over the size of r), and nothing is raised.
C18_InvertedBoundsGiveZero ==
    (fpc = "returned" /\ arg_r # <<>> /\ MinRadiusOf(arg_kwargs) >= RadiusOf(arg_kwargs)) =>
        /\ returned = <<0, Len(arg_r)>>
        /\ raised = "none"

\* calls with min_radius = radius and with min_radius > radius, on entries
\* that meet one of the bounds, returned 0
C18_Witness ==
    /\ fpc = "returned"
    /\ returned[1] = 0
    /\ \/ /\ arg_kwargs = [radius |-> 50, min_radius |-> 50]
          /\ arg_r = <<50, 30>>
       \/ /\ arg_kwargs = [radius |-> 34, min_radius |-> 50]
          /\ arg_r = <<30, 50>>

\* other reference distances for the same pairs
OtherR0 == {[i \in 1..Len(arg_r) |-> d] : d \in Dists}

\* C19: the value returned is the value of the same call with any other r0.
C19_IndependentOfR0 ==
    fpc = "returned" =>
        \A other \in OtherR0 : returned = CallMethod(arg_r, other, arg_kwargs)

\* a call whose r0 differs from r, in and out of the bounds, that returned a
\* value above 0
C19_Witness ==
    /\ fpc = "returned"
    /\ arg_r = <<30, 50>>
    /\ arg_r0 = <<30, 30>>
    /\ returned = <<1, 2>>

\* C20: when no pair is in contact in the reference, r is empty in every call
\* and the value stored is 0/0, which is no number in [0, 1]; nothing is
\* raised and the analysis runs to its end.
C20_EmptyRDividesByZero ==
    (nb = 2 /\ calls # <<>> /\ NativeSeq = <<>>) =>
        /\ \A k \in 1..Len(calls) :
               /\ calls[k].args[1] = <<>>
               /\ timeseries.data[k][2] = <<0, 0>>
        /\ raised = "none"

\* the analysis has returned with 0/0 in the row of every frame
C20_Witness ==
    /\ nb = 2
    /\ "ca" \in namespace
    /\ NativeSeq = <<>>
    /\ Len(calls) = 2
    /\ ca.data[1][2] = <<0, 0>>
    /\ ca.data[2][2] = <<0, 0>>

\* the example as the notebook runs it: cutoff 5.0, scored with radius 5.0 and
\* min_radius 2.4, and the row of frame 0 filled
ExampleFirstFrame ==
    /\ nb = 2
    /\ calls # <<>>
    /\ radius = 50
    /\ kwargs = [radius |-> 50, min_radius |-> 24]

\* the distances of the native contacts in the reference (frame 0)
NativeDistances ==
    [n \in 1..Len(NativeSeq) |->
        Separation(0, acidic[NativeSeq[n][1]], basic[NativeSeq[n][2]])]

\* the native contacts whose reference distance d satisfies lo < d
NativeAbove(lo) == {n \in 1..Len(NativeSeq) : lo < NativeDistances[n]}

\* the native contacts whose reference distance is exactly d
NativeAt(d) == {n \in 1..Len(NativeSeq) : NativeDistances[n] = d}

\* C21 as stated: in the example r equals r0 at the first frame and the value
\* of frame 0 is the fraction of native contacts whose distance is greater
\* than min_radius: the upper bound excludes no native contact.
C21_FirstFrameAllNativeAboveMin ==
    ExampleFirstFrame =>
        /\ calls[1].args[1] = calls[1].args[2]
        /\ timeseries.data[1][2] = <<Cardinality(NativeAbove(24)), Len(NativeSeq)>>

\* C21 as amended: in the example r equals r0 at the first frame and the value
\* of frame 0 is the fraction of native contacts whose distance is greater
\* than min_radius and not exactly the radius: the upper bound excludes the
\* native contacts that lie exactly at the cutoff, and no others.
C21_FirstFrameNativeInsideCutoff ==
    ExampleFirstFrame =>
        /\ calls[1].args[1] = calls[1].args[2]
        /\ calls[1].args[1] = NativeDistances
        /\ timeseries.data[1][2] =
               <<Cardinality(NativeAbove(24)) - Cardinality(NativeAt(radius)),
                 Len(NativeSeq)>>

\* the example has run with one native contact inside the cutoff and one
\* exactly at it: frame 0 scores 1/2
C21_Witness ==
    /\ ExampleFirstFrame
    /\ "ca" \in namespace
    /\ Len(NativeSeq) = 2
    /\ Cardinality(NativeAt(50)) = 1
    /\ Cardinality(NativeAbove(24)) = 2
    /\ ca.data[1][2] = <<1, 2>>

====
